---- MODULE Spec2Model ----
(***************************************************************************)
(* The session relay of antigravity-remote-control.                        *)
(*                                                                         *)
(* The repository holds three generations of the relay server:             *)
(*   "enterprise"  src/backend/src/server.js lines 1-545                   *)
(*   "device"      src/backend/src/server.js lines 547-1099 (token auth,   *)
(*                 device registry)                                        *)
(*   "basic"       src/unnamed/part_000                                    *)
(* The variable `variant` selects the generation a behaviour runs; every   *)
(* handler of a generation is one action.  Time is counted in ticks; the   *)
(* millisecond constants of the source are scaled to ticks, keeping their  *)
(* order.  Every step records the event it handled in `ev` and the frames   *)
(* and replies the server sent while handling it in `sent`.                *)
(*                                                                         *)
(* Left out, as no property below reads them: the per-connection counters  *)
(* bytesTransferred, framesSent, state and connectedAt, the session flags  *)
(* agentConnected and mobileConnected, the ping each enterprise socket is  *)
(* sent every heartbeatInterval, the GET endpoints other than /api/health, *)
(* and the onRequest rate-limit hook of the device-registry version.  A    *)
(* frame is handled only while its socket is open, sockets are numbered in *)
(* the order they connect, and a session identifier handed out by POST     *)
(* /api/sessions is any identifier not in use.                             *)
(***************************************************************************)
EXTENDS Integers, Sequences, FiniteSets, TLC

VARIABLES
    variant,        \* which generation of server.js runs
    testMode,       \* CONFIG.testMode
    now,            \* Date.now(), in ticks
    sessions,       \* Map sessionId -> SessionData
    agents,         \* connections.agents : Map sessionId -> connection
    mobiles,        \* connections.mobiles: Map sessionId -> connection
    rateLimits,     \* Map ip -> [count, resetTime]
    readyState,     \* socket.readyState of every socket
    sessionId,      \* closure variable sessionId of every socket
    clientType,     \* closure variable clientType of every socket
    connectionData, \* closure variable connectionData (enterprise)
    authenticated,  \* closure variable authenticated (device)
    connCounts,     \* open sockets per ip, kept by checkConnectionLimit (device)
    devices,        \* Map deviceId -> device (device)
    ev,             \* the event handled by the last step
    sent,           \* what the server sent while handling it, in order
    traced,         \* whether the run keeps the history below
    wire,           \* history: what every socket was handed by send(), in order
    windows,        \* WindowManager.windows : Map id -> window
    nextId,         \* WindowManager.nextId
    outputLog       \* history: how many outputs a window's terminal has produced

vars == <<variant, testMode, now, sessions, agents, mobiles, rateLimits,
          readyState, sessionId, clientType, connectionData,
          authenticated, connCounts, devices, ev, sent, traced, wire,
          windows, nextId, outputLog>>

cfgVars == <<variant, testMode, traced>>
wmVars == <<windows, nextId, outputLog>>
extVars == <<connCounts, devices>>
sockVars == <<readyState, sessionId, clientType, connectionData, authenticated>>

----------------------------------------------------------------------------
(* Bounds of the model *)

NumSockets == 2
TimedSockets == 1
MaxTime == 3
MaxRequests == 3
MaxDeviceTime == 7
MaxFrames == 2
MaxQueued == 3
MaxWindowIds == 4
MaxOutputs == 4

(* Program constants, scaled to ticks *)

sessionExpiry == 2
heartbeatTimeout == 1
rateLimitWindow == 2
rateLimitMax == 2
maxSessionsPerIP == 2

Sock == 1..NumSockets
\* the sockets that connect in the runs with the clock and the expiry sweep
TimedSock == 1..TimedSockets

\* req.ip of the socket: the first two sockets come from one address
clientIP(c) == IF c <= 2 THEN "ip1" ELSE "ip2"
SessionIds == {"S1", "S2"}
IPs == {"ip1", "ip2"}
Roles == {"agent", "mobile"}
ClientTypes == Roles \cup {"viewer"}
Null == "null"

\* socket.readyState: 0 not yet accepted, 1 open, 2 close() called and the
\* 'close' event still to come, 3 closed ('close' handled)
OPEN == 1

----------------------------------------------------------------------------
(* Frames.  Every frame, in either direction, is a record of the same shape; *)
(* `raw` stands for the bytes on the wire: two byte sequences that parse to  *)
(* the same JSON value differ in `raw` only.                                 *)

NoToken == [present |-> FALSE, sessionId |-> Null, clientType |-> Null]
BadToken == [present |-> TRUE, sessionId |-> Null, clientType |-> Null]
TokenFor(sid, ct) == [present |-> TRUE, sessionId |-> sid, clientType |-> ct]
Tokens == {NoToken, BadToken} \cup {TokenFor(sid, ct) : sid \in SessionIds, ct \in Roles}

Frame(type) ==
    [type |-> type, sessionId |-> Null, clientType |-> Null, token |-> NoToken,
     deviceId |-> Null, raw |-> "compact", wellFormed |-> TRUE, info |-> Null, num |-> 0,
     list |-> {}]

RawForms == {"compact", "spaced"}

\* rawMessage.length
messageSize(m) == IF m.raw = "compact" THEN 1 ELSE 2

\* JSON.stringify(JSON.parse(rawMessage.toString()))
Stringify(m) == [m EXCEPT !.raw = "compact"]

AuthFrames(sids, tokens) ==
    {[Frame("auth") EXCEPT !.sessionId = sid, !.clientType = ct, !.token = tok] :
        sid \in sids, ct \in Roles, tok \in tokens}

PongFrames == {[Frame("pong") EXCEPT !.num = now]}

PayloadFrames(types) ==
    {[Frame(t) EXCEPT !.raw = r] : t \in types, r \in RawForms}

\* replies and notifications of the server
\* a faulty error reply that carries no message, against which C13 is tested
ErrorWithoutMessage(text) == Frame("error")

ErrorFrame(text) == [Frame("error") EXCEPT !.info = text]
AuthSuccess(sid, ct, expiresAt) ==
    [Frame("auth_success") EXCEPT !.sessionId = sid, !.clientType = ct, !.num = expiresAt]
\* a faulty notification that names the role of its receiver, against which
\* C11 is tested
PeerConnectedToSelf(ct) ==
    [Frame("peer_connected") EXCEPT !.info = IF ct = "agent" THEN "mobile" ELSE "agent"]

PeerConnected(ct) == [Frame("peer_connected") EXCEPT !.info = ct]
PeerDisconnected(ct) == [Frame("peer_disconnected") EXCEPT !.info = ct]

Send(to, m) == [to |-> to, msg |-> m]

NoEvent ==
    [kind |-> "init", sock |-> 0, sid |-> Null, ip |-> Null, status |-> Null,
     msg |-> Frame(Null)]
MessageEvent(c, m) == [NoEvent EXCEPT !.kind = "message", !.sock = c, !.msg = m]
SockEvent(kind, c) == [NoEvent EXCEPT !.kind = kind, !.sock = c]
RequestEvent(kind, ip, sid, status) ==
    [NoEvent EXCEPT !.kind = kind, !.ip = ip, !.sid = sid, !.status = status]

----------------------------------------------------------------------------
(* Maps *)

Has(map, k) == k \in DOMAIN map
Put(map, k, v) == [x \in DOMAIN map \cup {k} |-> IF x = k THEN v ELSE map[x]]
Delete(map, k) == [x \in DOMAIN map \ {k} |-> map[x]]
EmptyMap == [x \in {} |-> 0]

\* conn?.socket?.readyState === 1 for the entry of a connection map
IsOpen(map, sid) == Has(map, sid) /\ readyState[map[sid].socket] = OPEN

\* the sockets a sweep calls close() on go from open to closing
CloseAll(socks) ==
    [c \in Sock |-> IF c \in socks /\ readyState[c] = OPEN THEN 2 ELSE readyState[c]]

\* a faulty stream that puts what is sent last in front, against which C32 is
\* tested
DeliverAtFront(stream, frames) == frames \o stream

\* target.send(...): a socket transmits what it is handed in the order of the
\* calls
Deliver(stream, frames) == stream \o frames

\* the frames of the last step that forward the frame it handled to socket t,
\* each noted by its sender and its number
ForwardsTo(t, event, frames) ==
    LET hits == SelectSeq(frames, LAMBDA f : f.to = t /\ f.msg.type = event.msg.type)
    IN [i \in 1..Len(hits) |-> [from |-> event.sock, num |-> hits[i].msg.num]]

\* the history of a traced run: every frame other than auth counts as one
\* more frame of its sender, and what the handler forwards goes on the
\* receiver's stream
Wired ==
    wire' = IF traced /\ ev'.kind = "message" /\ ev'.msg.type # "auth"
            THEN [count |-> [wire.count EXCEPT ![ev'.sock] = @ + 1],
                  log |-> [t \in Sock |->
                              Deliver(wire.log[t], ForwardsTo(t, ev', sent'))]]
            ELSE wire

----------------------------------------------------------------------------
(* Enterprise server: data structures and rate limiting *)

ConnectionData(c, ct, sid) ==
    [socket |-> c, clientType |-> ct, sessionId |-> sid, lastHeartbeat |-> now,
     latency |-> 0]

SessionData(ip) ==
    [expiresAt |-> now + sessionExpiry, creatorIP |-> ip, totalFrames |-> 0,
     totalBytes |-> 0]

\* the entry of ip after checkRateLimit(ip); the call returns RateAllowed of it
checkRateLimit(ip) ==
    LET fresh == [count |-> 0, resetTime |-> now + rateLimitWindow]
        limit == IF ~Has(rateLimits, ip) THEN fresh
                 ELSE IF now > rateLimits[ip].resetTime THEN fresh
                 ELSE rateLimits[ip]
    IN [limit EXCEPT !.count = @ + 1]

\* a faulty comparison, against which C10 is tested
RateAllowedBelow(limit) == limit.count < rateLimitMax

RateAllowed(limit) == limit.count <= rateLimitMax

\* the requests the model lets an ip make: the count of a window stays bounded
RequestBudget(ip, n) ==
    IF Has(rateLimits, ip)
    THEN IF now > rateLimits[ip].resetTime THEN TRUE
         ELSE rateLimits[ip].count < n
    ELSE TRUE

----------------------------------------------------------------------------
(* Enterprise server: /ws/relay *)

\* sockets are numbered in the order they connect
IsNewSocket(c) == readyState[c] = 0 /\ \A d \in Sock : d < c => readyState[d] # 0

EntConnect(c) ==
    /\ variant = "enterprise"
    /\ IsNewSocket(c)
    /\ readyState' = [readyState EXCEPT ![c] = OPEN]
    /\ ev' = SockEvent("connect", c)
    /\ sent' = <<>>
    /\ Wired
    /\ UNCHANGED <<cfgVars, wmVars, extVars, now, sessions, agents, mobiles, rateLimits,
                   sessionId, clientType, connectionData, authenticated>>

\* message.type === 'pong'
EntPong(c, m) ==
    LET cd == connectionData[c]
        cd1 == [cd EXCEPT !.lastHeartbeat = now, !.latency = now - m.num]
        Touch(map) == IF Has(map, cd.sessionId) /\ map[cd.sessionId] = cd
                      THEN Put(map, cd.sessionId, cd1) ELSE map
    IN /\ IF Has(connectionData, c)
          THEN /\ connectionData' = Put(connectionData, c, cd1)
               /\ agents' = IF cd.clientType = "agent" THEN Touch(agents) ELSE agents
               /\ mobiles' = IF cd.clientType = "mobile" THEN Touch(mobiles) ELSE mobiles
          ELSE UNCHANGED <<connectionData, agents, mobiles>>
       /\ sent' = <<>>
       /\ UNCHANGED <<sessions, sessionId, clientType>>

\* a faulty refresh that forgets Date.now(), against which C5 is tested
RefreshWithoutNow(session) == [session EXCEPT !.expiresAt = sessionExpiry]

\* a faulty expiry test that lets every session through, against which C6 is tested
NeverExpired(session) == FALSE

\* Date.now() > session.expiresAt
SessionExpired(session) == now > session.expiresAt

\* session.expiresAt = Date.now() + CONFIG.sessionExpiry
EntRefreshExpiry(session) == [session EXCEPT !.expiresAt = now + sessionExpiry]

\* message.type === 'auth'
EntAuth(c, m) ==
    LET sid == m.sessionId
        ct == m.clientType
        created == IF ~Has(sessions, sid) /\ testMode
                   THEN Put(sessions, sid, SessionData(clientIP(c))) ELSE sessions
        cd == ConnectionData(c, ct, sid)
        paired == IF ct = "agent" THEN mobiles' ELSE agents'
    IN /\ sessionId' = [sessionId EXCEPT ![c] = sid]
       /\ clientType' = [clientType EXCEPT ![c] = ct]
       /\ IF ~Has(created, sid)
          THEN /\ sent' = <<Send(c, ErrorFrame("Invalid session"))>>
               /\ UNCHANGED <<sessions, agents, mobiles, connectionData>>
          ELSE IF SessionExpired(created[sid])
          THEN /\ sent' = <<Send(c, ErrorFrame("Session expired"))>>
               /\ sessions' = created
               /\ UNCHANGED <<agents, mobiles, connectionData>>
          ELSE /\ connectionData' = Put(connectionData, c, cd)
               /\ agents' = IF ct = "agent" THEN Put(agents, sid, cd) ELSE agents
               /\ mobiles' = IF ct = "mobile" THEN Put(mobiles, sid, cd) ELSE mobiles
               /\ sessions' = Put(created, sid, EntRefreshExpiry(created[sid]))
               /\ sent' = <<Send(c, AuthSuccess(sid, ct, sessions'[sid].expiresAt))>>
                      \o (IF Has(paired, sid) /\ readyState[paired[sid].socket] = OPEN
                          THEN <<Send(paired[sid].socket, PeerConnected(ct))>>
                          ELSE <<>>)

\* a faulty relay that forwards a re-serialisation, against which C7 is tested
Reserialised(m) == Stringify(m)

\* the frame handed to target.socket.send by the relay branch
EntForwarded(m) == m

\* relay messages between paired clients
\* a faulty count that forgets the bytes, against which C29 is tested
recordFramesOnly(session, m) == [session EXCEPT !.totalFrames = @ + 1]

\* session.totalFrames++; session.totalBytes += messageSize
recordTraffic(session, m) ==
    [session EXCEPT !.totalFrames = @ + 1, !.totalBytes = @ + messageSize(m)]

EntRelay(c, m) ==
    LET sid == sessionId[c]
        target == IF clientType[c] = "agent" THEN mobiles ELSE agents
    IN /\ IF sid # Null /\ clientType[c] # Null /\ IsOpen(target, sid)
          THEN /\ sessions' =
                    IF Has(sessions, sid) /\ m.type = "frame"
                    THEN Put(sessions, sid, recordTraffic(sessions[sid], m))
                    ELSE sessions
               /\ sent' = <<Send(target[sid].socket, EntForwarded(m))>>
          ELSE /\ sent' = <<>>
               /\ UNCHANGED sessions
       /\ UNCHANGED <<agents, mobiles, sessionId, clientType, connectionData>>

\* socket.on('message')
EntMessage(c, m) ==
    /\ variant = "enterprise"
    /\ readyState[c] = OPEN
    /\ CASE m.type = "pong" -> EntPong(c, m)
         [] m.type = "auth" -> EntAuth(c, m)
         [] OTHER -> EntRelay(c, m)
    /\ ev' = MessageEvent(c, m)
    /\ Wired
    /\ UNCHANGED <<cfgVars, wmVars, extVars, now, rateLimits, readyState, authenticated>>

\* socket.on('close')
EntClose(c) ==
    LET sid == sessionId[c]
        ct == clientType[c]
        paired == IF ct = "agent" THEN mobiles' ELSE agents'
    IN /\ variant = "enterprise"
       /\ readyState[c] \in {OPEN, 2}
       /\ readyState' = [readyState EXCEPT ![c] = 3]
       /\ IF sid # Null /\ ct # Null
          THEN /\ agents' = IF ct = "agent" THEN Delete(agents, sid) ELSE agents
               /\ mobiles' = IF ct # "agent" THEN Delete(mobiles, sid) ELSE mobiles
               /\ sent' = IF Has(paired, sid) /\ readyState'[paired[sid].socket] = OPEN
                          THEN <<Send(paired[sid].socket, PeerDisconnected(ct))>>
                          ELSE <<>>
          ELSE /\ sent' = <<>>
               /\ UNCHANGED <<agents, mobiles>>
       /\ ev' = [SockEvent("close", c) EXCEPT !.status =
                    IF readyState[c] = OPEN THEN "client" ELSE "server"]
       /\ Wired
       /\ UNCHANGED <<cfgVars, wmVars, extVars, now, sessions, rateLimits, sessionId,
                      clientType, connectionData, authenticated>>

----------------------------------------------------------------------------
(* Enterprise server: sweeps and REST API *)

SessionOrder == <<"S1", "S2">>

\* what a sweep or DELETE sends to the two connections of session sid
Farewell(sid, type) ==
    (IF IsOpen(agents, sid) THEN <<Send(agents[sid].socket, Frame(type))>> ELSE <<>>)
    \o (IF IsOpen(mobiles, sid) /\ ~(IsOpen(agents, sid) /\ agents[sid].socket = mobiles[sid].socket)
        THEN <<Send(mobiles[sid].socket, Frame(type))>> ELSE <<>>)

\* the sockets bound to the sessions of sids
BoundSockets(sids) ==
    {agents[sid].socket : sid \in sids \cap DOMAIN agents}
        \cup {mobiles[sid].socket : sid \in sids \cap DOMAIN mobiles}

Expired(sid) == Has(sessions, sid) /\ now > sessions[sid].expiresAt

cleanupExpiredSessions ==
    LET due == {sid \in SessionIds : Expired(sid)}
        \* the sessions are visited one after the other: a socket closed for one
        \* session is no longer open when the next one is visited
        Notes[i \in 0..Len(SessionOrder)] ==
            IF i = 0 THEN <<>>
            ELSE LET sid == SessionOrder[i]
                     told == {Notes[i - 1][k].to : k \in 1..Len(Notes[i - 1])}
                 IN Notes[i - 1] \o
                        (IF sid \in due
                         THEN SelectSeq(Farewell(sid, "session_expired"),
                                        LAMBDA x : x.to \notin told)
                         ELSE <<>>)
    IN /\ variant = "enterprise"
       /\ due # {}
       /\ sent' = Notes[Len(SessionOrder)]
       /\ readyState' = CloseAll(BoundSockets(due))
       /\ agents' = [sid \in DOMAIN agents \ due |-> agents[sid]]
       /\ mobiles' = [sid \in DOMAIN mobiles \ due |-> mobiles[sid]]
       /\ sessions' = [sid \in DOMAIN sessions \ due |-> sessions[sid]]
       /\ ev' = [NoEvent EXCEPT !.kind = "cleanup"]
       /\ Wired
       /\ UNCHANGED <<cfgVars, wmVars, extVars, now, rateLimits, sessionId,
                      clientType, connectionData, authenticated>>

\* now - conn.lastHeartbeat > CONFIG.heartbeatTimeout
Stale(conn) == now - conn.lastHeartbeat > heartbeatTimeout

checkHeartbeats ==
    LET staleAgents == {sid \in DOMAIN agents : Stale(agents[sid])}
        staleMobiles == {sid \in DOMAIN mobiles : Stale(mobiles[sid])}
    IN /\ variant = "enterprise"
       /\ staleAgents \cup staleMobiles # {}
       /\ readyState' = CloseAll({agents[sid].socket : sid \in staleAgents}
                                    \cup {mobiles[sid].socket : sid \in staleMobiles})
       /\ agents' = [sid \in DOMAIN agents \ staleAgents |-> agents[sid]]
       /\ mobiles' = [sid \in DOMAIN mobiles \ staleMobiles |-> mobiles[sid]]
       /\ sent' = <<>>
       /\ ev' = [NoEvent EXCEPT !.kind = "heartbeats"]
       /\ Wired
       /\ UNCHANGED <<cfgVars, wmVars, extVars, now, sessions, rateLimits, sessionId,
                      clientType, connectionData, authenticated>>

\* POST /api/sessions; id is the identifier uuidv4() returns
\* a faulty handler that replies 'Max sessions per IP exceeded' and goes on to
\* create the session, against which C28 is tested
PostCreatesPastQuota(limit, ipSessions) == RateAllowed(limit)

\* the handler gets as far as sessions.set
PostCreates(limit, ipSessions) == RateAllowed(limit) /\ ipSessions < maxSessionsPerIP

EntPostSessions(ip, id) ==
    LET limit == checkRateLimit(ip)
        ipSessions == Cardinality({sid \in DOMAIN sessions : sessions[sid].creatorIP = ip})
        reply == IF ~RateAllowed(limit) THEN "Rate limit exceeded"
                 ELSE IF ipSessions >= maxSessionsPerIP THEN "Max sessions per IP exceeded"
                 ELSE "created"
    IN /\ variant = "enterprise"
       /\ rateLimits' = Put(rateLimits, ip, limit)
       /\ ~Has(sessions, id)
       /\ sessions' = IF PostCreates(limit, ipSessions)
                      THEN Put(sessions, id, SessionData(ip))
                      ELSE sessions
       /\ ev' = RequestEvent("post", ip, IF reply = "created" THEN id ELSE Null, reply)
       /\ sent' = <<>>
       /\ Wired
       /\ UNCHANGED <<cfgVars, wmVars, extVars, now, agents, mobiles, sockVars>>

\* GET /api/health
EntHealth(ip) ==
    LET limit == checkRateLimit(ip)
    IN /\ variant = "enterprise"
       /\ rateLimits' = Put(rateLimits, ip, limit)
       /\ ev' = RequestEvent("health", ip, Null,
                    IF RateAllowed(limit) THEN "ok" ELSE "Rate limit exceeded")
       /\ sent' = <<>>
       /\ Wired
       /\ UNCHANGED <<cfgVars, wmVars, extVars, now, sessions, agents, mobiles, sockVars>>

\* DELETE /api/sessions/:sessionId
EntDeleteSession(sid) ==
    /\ variant = "enterprise"
    /\ Has(sessions, sid)
    /\ sent' = Farewell(sid, "session_terminated")
    /\ readyState' = CloseAll(BoundSockets({sid}))
    /\ agents' = Delete(agents, sid)
    /\ mobiles' = Delete(mobiles, sid)
    /\ sessions' = Delete(sessions, sid)
    /\ ev' = RequestEvent("delete", Null, sid, "Session terminated")
    /\ Wired
    /\ UNCHANGED <<cfgVars, wmVars, extVars, now, rateLimits, sessionId,
                   clientType, connectionData, authenticated>>

----------------------------------------------------------------------------
(* Device-registry server: the functions it imports from ./auth.js *)

sessionTimeout == 2
maxConnectionsPerIP == 2

\* verifyToken(token): the decoded {sessionId, clientType}; valid is FALSE for
\* the null the function returns on a token that does not verify
verifyToken(token) ==
    [valid |-> token.sessionId # Null, sessionId |-> token.sessionId,
     clientType |-> token.clientType]

\* validateInput(message).valid
validateInput(m) == m.wellFormed

ConnCount(ip) == IF Has(connCounts, ip) THEN connCounts[ip] ELSE 0

\* checkConnectionLimit(ip) under a cap of `cap` connections
checkConnectionLimitAt(ip, cap) == ConnCount(ip) < cap

checkConnectionLimit(ip) == checkConnectionLimitAt(ip, maxConnectionsPerIP)

\* releaseConnection(ip)
releaseConnection(ip) ==
    Put(connCounts, ip, IF ConnCount(ip) > 0 THEN ConnCount(ip) - 1 ELSE 0)

----------------------------------------------------------------------------
(* Device-registry server: /ws/relay and REST API *)

\* the registry of this server and of the basic one holds the socket itself
SocketEntry(c) == [socket |-> c]

DEVICE_TIMEOUT == 2

\* registerDevice(deviceId, info, socket): the entry of the device
registerDevice(c, sid) == [socket |-> c, sessionId |-> sid, lastHeartbeat |-> now]

\* updateDeviceHeartbeat(deviceId, data)
updateDeviceHeartbeat(deviceId) ==
    IF Has(devices, deviceId)
    THEN Put(devices, deviceId, [devices[deviceId] EXCEPT !.lastHeartbeat = now])
    ELSE devices

\* getOnlineDevices(): the identifiers of the devices it lists
\* a faulty comparison that lists a device at the timeout itself, against which
\* C20 is tested
getDevicesUpToTimeout ==
    {d \in DOMAIN devices : now - devices[d].lastHeartbeat <= DEVICE_TIMEOUT}

getOnlineDevices == {d \in DOMAIN devices : now - devices[d].lastHeartbeat < DEVICE_TIMEOUT}

\* a faulty test that forgets the factor of three, against which C21 is tested
OfflineAtTimeout(d) == now - devices[d].lastHeartbeat > DEVICE_TIMEOUT

\* the devices the periodic clean-up deletes
Offline(d) == now - devices[d].lastHeartbeat > DEVICE_TIMEOUT * 3

\* setInterval: cleanup of offline devices; a run that deletes nothing is
\* left out
cleanupOfflineDevices ==
    LET gone == {d \in DOMAIN devices : Offline(d)}
    IN /\ variant = "device"
       /\ gone # {}
       /\ devices' = [d \in DOMAIN devices \ gone |-> devices[d]]
       /\ ev' = [NoEvent EXCEPT !.kind = "devices"]
       /\ sent' = <<>>
       /\ Wired
       /\ UNCHANGED <<cfgVars, wmVars, connCounts, now, sessions, agents, mobiles, rateLimits,
                      sockVars>>

DevConnectUnder(c, cap) ==
    LET ip == clientIP(c)
    IN /\ variant = "device"
       /\ IsNewSocket(c)
       /\ IF checkConnectionLimitAt(ip, cap)
          THEN /\ connCounts' = Put(connCounts, ip, ConnCount(ip) + 1)
               /\ readyState' = [readyState EXCEPT ![c] = OPEN]
               /\ sent' = <<>>
               /\ ev' = [SockEvent("connect", c) EXCEPT !.status = "accepted"]
          ELSE \* refused before any handler is installed: no 'close' handler runs
               /\ readyState' = [readyState EXCEPT ![c] = 3]
               /\ sent' = <<Send(c, ErrorFrame("Too many connections from your IP"))>>
               /\ ev' = [SockEvent("connect", c) EXCEPT !.status = "refused"]
               /\ UNCHANGED connCounts
       /\ Wired
       /\ UNCHANGED <<cfgVars, wmVars, now, sessions, agents, mobiles, rateLimits, devices,
                      sessionId, clientType, connectionData, authenticated>>

\* fastify.get('/ws/relay') under the cap of auth.js
DevConnect(c) == DevConnectUnder(c, maxConnectionsPerIP)

\* session.expiresAt && Date.now() > session.expiresAt
DevSessionExpired(session) == session.expiresAt # 0 /\ now > session.expiresAt

\* message.type === 'auth'
\* a faulty comparison that forgets the role, against which C14 is tested
SessionOnlyMismatch(decoded, sid, ct) == decoded.sessionId # sid

\* the decoded token does not match the session and role the auth frame claims
TokenMismatch(decoded, sid, ct) == decoded.sessionId # sid \/ decoded.clientType # ct

DevAuth(c, m) ==
    LET sid == m.sessionId
        ct == m.clientType
        decoded == verifyToken(m.token)
        created == IF ~Has(sessions, sid) /\ testMode
                   THEN Put(sessions, sid,
                            [SessionData(Null) EXCEPT !.expiresAt = now + sessionTimeout])
                   ELSE sessions
        paired == IF ct = "agent" THEN mobiles' ELSE agents'
        deviceId == IF m.deviceId # Null THEN m.deviceId ELSE sid
        Reject(text) ==
            /\ sent' = <<Send(c, ErrorFrame(text))>>
            /\ UNCHANGED <<agents, mobiles, authenticated, devices>>
    IN /\ sessionId' = [sessionId EXCEPT ![c] = sid]
       /\ clientType' = [clientType EXCEPT ![c] = ct]
       /\ IF m.token.present /\ ~decoded.valid
          THEN Reject("Invalid or expired token") /\ UNCHANGED sessions
          ELSE IF m.token.present /\ TokenMismatch(decoded, sid, ct)
          THEN Reject("Token mismatch") /\ UNCHANGED sessions
          ELSE IF ~Has(created, sid)
          THEN Reject("Invalid session") /\ UNCHANGED sessions
          ELSE IF DevSessionExpired(created[sid])
          THEN Reject("Session expired") /\ sessions' = Delete(created, sid)
          ELSE /\ authenticated' = [authenticated EXCEPT ![c] = TRUE]
               /\ agents' = IF ct = "agent" THEN Put(agents, sid, SocketEntry(c)) ELSE agents
               /\ devices' = IF ct = "agent" /\ m.info = "deviceInfo"
                             THEN Put(devices, deviceId, registerDevice(c, sid))
                             ELSE devices
               /\ mobiles' = IF ct = "mobile" THEN Put(mobiles, sid, SocketEntry(c)) ELSE mobiles
               /\ sessions' = created
               /\ sent' = <<Send(c, AuthSuccess(sid, ct, 0))>>
                      \o (IF Has(paired, sid) /\ readyState[paired[sid].socket] = OPEN
                          THEN <<Send(paired[sid].socket, PeerConnected(ct))>>
                          ELSE <<>>)

\* the frame handed to target.send by the webrtc_signal branch
DevSignalForwarded(m) == Stringify(m)

\* the frame handed to target.send by the relay branch
DevForwarded(m) == m

\* the frame types after authentication that end in a send to the counterpart
DevRelay(c, m) ==
    LET sid == sessionId[c]
        target == IF clientType[c] = "agent" THEN mobiles ELSE agents
        out == IF m.type = "webrtc_signal" THEN DevSignalForwarded(m) ELSE DevForwarded(m)
    IN /\ sent' = IF (m.type = "webrtc_signal" \/ (sid # Null /\ clientType[c] # Null))
                      /\ IsOpen(target, sid)
                  THEN <<Send(target[sid].socket, out)>>
                  ELSE <<>>
       /\ UNCHANGED <<sessions, agents, mobiles, sessionId, clientType, authenticated,
                      devices>>

\* message.type === 'connect_device' from a mobile
DevConnectDevice(c, m) ==
    LET sid == sessionId[c]
    IN /\ IF Has(devices, m.deviceId) /\ readyState[devices[m.deviceId].socket] = OPEN
          THEN /\ agents' = Put(agents, sid, SocketEntry(devices[m.deviceId].socket))
               /\ sent' = <<Send(c, [Frame("device_connected") EXCEPT
                                         !.deviceId = m.deviceId]),
                            Send(devices[m.deviceId].socket,
                                 [Frame("mobile_connected") EXCEPT !.sessionId = sid])>>
          ELSE /\ sent' = <<Send(c, ErrorFrame("Device not available"))>>
               /\ UNCHANGED agents
       /\ UNCHANGED <<sessions, mobiles, sessionId, clientType, authenticated, devices>>

\* socket.on('message')
DevMessage(c, m) ==
    /\ variant = "device"
    /\ readyState[c] = OPEN
    /\ IF m.type = "auth" THEN DevAuth(c, m)
       ELSE IF ~authenticated[c]
       THEN /\ sent' = <<Send(c, ErrorFrame("Not authenticated"))>>
            /\ UNCHANGED <<sessions, agents, mobiles, sessionId, clientType, authenticated,
                           devices>>
       ELSE IF clientType[c] = "mobile" /\ ~validateInput(m)
       THEN /\ sent' = <<>>
            /\ UNCHANGED <<sessions, agents, mobiles, sessionId, clientType, authenticated,
                           devices>>
       ELSE IF m.type = "heartbeat" /\ clientType[c] = "agent"
       THEN /\ devices' = updateDeviceHeartbeat(IF m.deviceId # Null THEN m.deviceId
                                                ELSE sessionId[c])
            /\ sent' = <<>>
            /\ UNCHANGED <<sessions, agents, mobiles, sessionId, clientType, authenticated>>
       ELSE IF m.type = "get_devices" /\ clientType[c] = "mobile"
       THEN /\ sent' = <<Send(c, [Frame("devices") EXCEPT !.list = getOnlineDevices])>>
            /\ UNCHANGED <<sessions, agents, mobiles, sessionId, clientType, authenticated,
                           devices>>
       ELSE IF m.type = "connect_device" /\ clientType[c] = "mobile"
       THEN DevConnectDevice(c, m)
       ELSE DevRelay(c, m)
    /\ ev' = MessageEvent(c, m)
    /\ Wired
    /\ UNCHANGED <<cfgVars, wmVars, connCounts, now, rateLimits, readyState, connectionData>>

\* socket.on('close')
\* a faulty close handler that frees no slot, against which C33 is tested
closeWithoutRelease(c) == connCounts

\* socket.on('close'): releaseConnection(clientIP)
closeRelease(c) == releaseConnection(clientIP(c))

DevClose(c) ==
    LET sid == sessionId[c]
        ct == clientType[c]
        paired == IF ct = "agent" THEN mobiles' ELSE agents'
    IN /\ variant = "device"
       /\ readyState[c] \in {OPEN, 2}
       /\ readyState' = [readyState EXCEPT ![c] = 3]
       /\ connCounts' = closeRelease(c)
       /\ IF sid # Null /\ ct # Null
          THEN /\ agents' = IF ct = "agent" THEN Delete(agents, sid) ELSE agents
               /\ mobiles' = IF ct # "agent" THEN Delete(mobiles, sid) ELSE mobiles
               /\ sent' = IF Has(paired, sid) /\ readyState'[paired[sid].socket] = OPEN
                          THEN <<Send(paired[sid].socket, PeerDisconnected(ct))>>
                          ELSE <<>>
          ELSE /\ sent' = <<>>
               /\ UNCHANGED <<agents, mobiles>>
       /\ ev' = [SockEvent("close", c) EXCEPT !.status = "client"]
       /\ Wired
       /\ UNCHANGED <<cfgVars, wmVars, now, sessions, rateLimits, devices, sessionId,
                      clientType, connectionData, authenticated>>

\* POST /api/sessions; id is the identifier generateSecureSessionId() returns
DevPostSessions(id) ==
    /\ variant = "device"
    /\ ~Has(sessions, id)
    /\ sessions' = Put(sessions, id,
                       [SessionData(Null) EXCEPT !.expiresAt = now + sessionTimeout])
    /\ ev' = RequestEvent("post", Null, id, "created")
    /\ sent' = <<>>
    /\ Wired
    /\ UNCHANGED <<cfgVars, wmVars, extVars, now, agents, mobiles, rateLimits, sockVars>>

----------------------------------------------------------------------------
(* Basic server (src/unnamed/part_000) *)

BasicConnect(c) ==
    /\ variant = "basic"
    /\ IsNewSocket(c)
    /\ readyState' = [readyState EXCEPT ![c] = OPEN]
    /\ ev' = SockEvent("connect", c)
    /\ sent' = <<>>
    /\ Wired
    /\ UNCHANGED <<cfgVars, wmVars, extVars, now, sessions, agents, mobiles, rateLimits,
                   sessionId, clientType, connectionData, authenticated>>

\* the frame handed to target.send by the relay branch
BasicForwarded(m) == m

\* socket.on('message')
BasicMessage(c, m) ==
    LET sid == IF m.type = "auth" THEN m.sessionId ELSE sessionId[c]
        ct == IF m.type = "auth" THEN m.clientType ELSE clientType[c]
        created == IF ~Has(sessions, sid) /\ testMode
                   THEN Put(sessions, sid, [SessionData(Null) EXCEPT !.expiresAt = 0])
                   ELSE sessions
        paired == IF ct = "agent" THEN mobiles' ELSE agents'
        target == IF ct = "agent" THEN mobiles ELSE agents
    IN /\ variant = "basic"
       /\ readyState[c] = OPEN
       /\ IF m.type = "auth"
          THEN /\ sessionId' = [sessionId EXCEPT ![c] = sid]
               /\ clientType' = [clientType EXCEPT ![c] = ct]
               /\ IF ~Has(created, sid)
                  THEN /\ sent' = <<Send(c, ErrorFrame("Invalid session"))>>
                       /\ UNCHANGED <<sessions, agents, mobiles>>
                  ELSE /\ sessions' = created
                       /\ agents' = IF ct = "agent" THEN Put(agents, sid, SocketEntry(c))
                                    ELSE agents
                       /\ mobiles' = IF ct = "mobile" THEN Put(mobiles, sid, SocketEntry(c))
                                     ELSE mobiles
                       /\ sent' = <<Send(c, AuthSuccess(sid, ct, 0))>>
                              \o (IF Has(paired, sid) /\ readyState[paired[sid].socket] = OPEN
                                  THEN <<Send(paired[sid].socket, PeerConnected(ct))>>
                                  ELSE <<>>)
          ELSE /\ sent' = IF sid # Null /\ ct # Null /\ IsOpen(target, sid)
                          THEN <<Send(target[sid].socket, BasicForwarded(m))>>
                          ELSE <<>>
               /\ UNCHANGED <<sessions, agents, mobiles, sessionId, clientType>>
       /\ ev' = MessageEvent(c, m)
       /\ Wired
       /\ UNCHANGED <<cfgVars, wmVars, extVars, now, rateLimits, readyState, connectionData,
                      authenticated>>

\* socket.on('close')
BasicClose(c) ==
    LET sid == sessionId[c]
        ct == clientType[c]
        paired == IF ct = "agent" THEN mobiles' ELSE agents'
    IN /\ variant = "basic"
       /\ readyState[c] = OPEN
       /\ readyState' = [readyState EXCEPT ![c] = 3]
       /\ IF sid # Null /\ ct # Null
          THEN /\ agents' = IF ct = "agent" THEN Delete(agents, sid) ELSE agents
               /\ mobiles' = IF ct # "agent" THEN Delete(mobiles, sid) ELSE mobiles
               /\ sent' = IF Has(paired, sid) /\ readyState'[paired[sid].socket] = OPEN
                          THEN <<Send(paired[sid].socket, PeerDisconnected(ct))>>
                          ELSE <<>>
          ELSE /\ sent' = <<>>
               /\ UNCHANGED <<agents, mobiles>>
       /\ ev' = [SockEvent("close", c) EXCEPT !.status = "client"]
       /\ Wired
       /\ UNCHANGED <<cfgVars, wmVars, extVars, now, sessions, rateLimits, sessionId,
                      clientType, connectionData, authenticated>>

\* POST /api/sessions; id is the identifier uuidv4() returns
BasicPostSessions(id) ==
    /\ variant = "basic"
    /\ ~Has(sessions, id)
    /\ sessions' = Put(sessions, id, [SessionData(Null) EXCEPT !.expiresAt = 0])
    /\ ev' = RequestEvent("post", Null, id, "created")
    /\ sent' = <<>>
    /\ Wired
    /\ UNCHANGED <<cfgVars, wmVars, extVars, now, agents, mobiles, rateLimits, sockVars>>

----------------------------------------------------------------------------
(* Specifications *)

Advance(limit) ==
    /\ now < limit
    /\ now' = now + 1
    /\ ev' = [NoEvent EXCEPT !.kind = "tick"]
    /\ sent' = <<>>
    /\ Wired
    /\ UNCHANGED <<cfgVars, wmVars, extVars, sessions, agents, mobiles, rateLimits, sockVars>>

Tick == Advance(MaxTime)

----------------------------------------------------------------------------
(* Window manager (window-manager.js) and its socket events (config.js)     *)

\* config.windowManager, scaled
maxWindows == 2
outputBufferSize == 2

\* the variables of the relay, which the window manager never touches
relayVars == <<cfgVars, extVars, now, sessions, agents, mobiles, rateLimits, sockVars, wire>>

WindowEvent(kind, id, status) ==
    [NoEvent EXCEPT !.kind = kind, !.sock = id, !.status = status]

\* new AntigravityWindow(id, options); exitTimer is the pending setTimeout of
\* the manager's 'exit' listener
AntigravityWindow(id) == [id |-> id, isRunning |-> TRUE, outputBuffer |-> <<>>,
                          exitTimer |-> FALSE]

\* a faulty test that lets one window too many in, against which C37 is tested
tableOverFull == Cardinality(DOMAIN windows) > maxWindows

\* this.windows.size >= config.windowManager.maxWindows
tableFull == Cardinality(DOMAIN windows) >= maxWindows

\* socket.on('window:create') and launcher: WindowManager.createWindow
createWindow ==
    /\ nextId <= MaxWindowIds
    /\ IF tableFull
       THEN /\ ev' = WindowEvent("window:create", 0, "Maximum windows reached")
            /\ UNCHANGED <<windows, nextId, outputLog>>
       ELSE /\ nextId' = nextId + 1
            /\ windows' = Put(windows, nextId, AntigravityWindow(nextId))
            /\ outputLog' = Put(outputLog, nextId, 0)
            /\ ev' = WindowEvent("window:create", nextId, "created")
    /\ sent' = <<>>
    /\ UNCHANGED relayVars

\* socket.on('window:close'): WindowManager.removeWindow(id)
removeWindow(id) ==
    /\ windows' = IF Has(windows, id) THEN Delete(windows, id) ELSE windows
    /\ outputLog' = IF Has(windows, id) THEN Delete(outputLog, id) ELSE outputLog
    /\ ev' = WindowEvent("window:close", id, IF Has(windows, id) THEN "removed" ELSE "none")
    /\ sent' = <<>>
    /\ UNCHANGED <<relayVars, nextId>>

\* while (this.outputBuffer.length > outputBufferSize) this.outputBuffer.shift()
RECURSIVE trim(_)
trim(buffer) ==
    IF Len(buffer) > outputBufferSize THEN trim(Tail(buffer)) ELSE buffer

\* a faulty push that never trims, against which C38 is tested
addWithoutTrim(buffer, data) == Append(buffer, [timestamp |-> now, data |-> data])

\* AntigravityWindow._addToBuffer(data)
addToBuffer(buffer, data) == trim(Append(buffer, [timestamp |-> now, data |-> data]))

\* AntigravityWindow.getBuffer(limit): this.outputBuffer.slice(-limit)
getBuffer(buffer, limit) ==
    IF limit = 0 \/ limit >= Len(buffer) THEN buffer
    ELSE SubSeq(buffer, Len(buffer) - limit + 1, Len(buffer))

\* pty.onData of a window that is still in the table, running or not (the
\* listener does not ask); the data of the k-th output of a terminal is the
\* number k
ptyOutput(id) ==
    /\ Has(windows, id)
    /\ outputLog[id] < MaxOutputs
    /\ windows' = Put(windows, id,
                      [windows[id] EXCEPT !.outputBuffer = addToBuffer(@, outputLog[id] + 1)])
    /\ outputLog' = Put(outputLog, id, outputLog[id] + 1)
    /\ ev' = WindowEvent("window:output", id, Null)
    /\ sent' = <<>>
    /\ UNCHANGED <<relayVars, nextId>>

\* pty.onExit: the window stops and the manager sets the removal timer
ptyExit(id) ==
    /\ Has(windows, id)
    /\ windows[id].isRunning
    /\ windows' = Put(windows, id, [windows[id] EXCEPT !.isRunning = FALSE,
                                                        !.exitTimer = TRUE])
    /\ ev' = WindowEvent("window:exit", id, Null)
    /\ sent' = <<>>
    /\ UNCHANGED <<relayVars, nextId, outputLog>>

\* the timer of the 'exit' listener: if (!window.isRunning) removeWindow(id)
exitTimeout(id) ==
    /\ Has(windows, id)
    /\ windows[id].exitTimer
    /\ windows' = Delete(windows, id)
    /\ outputLog' = Delete(outputLog, id)
    /\ ev' = WindowEvent("window:removed", id, Null)
    /\ sent' = <<>>
    /\ UNCHANGED <<relayVars, nextId>>

\* WindowManager.destroyAll
destroyAll ==
    /\ windows # EmptyMap
    /\ windows' = EmptyMap
    /\ outputLog' = EmptyMap
    /\ ev' = WindowEvent("destroyAll", 0, Null)
    /\ sent' = <<>>
    /\ UNCHANGED <<relayVars, nextId>>

\* socket.on('window:getBuffer'): WindowManager.getWindowBuffer(id, limit)
getWindowBuffer(id, limit) ==
    /\ ev' = [WindowEvent("window:getBuffer", id, Null) EXCEPT
                 !.msg.list = IF Has(windows, id)
                              THEN {<<i, getBuffer(windows[id].outputBuffer, limit)[i].data>> :
                                      i \in 1..Len(getBuffer(windows[id].outputBuffer, limit))}
                              ELSE {},
                 !.msg.num = limit]
    /\ sent' = <<>>
    /\ UNCHANGED <<relayVars, wmVars>>

InitAll(variants, modes, traces) ==
    /\ variant \in variants
    /\ testMode \in modes
    /\ now = 0
    /\ sessions = EmptyMap
    /\ agents = EmptyMap
    /\ mobiles = EmptyMap
    /\ rateLimits = EmptyMap
    /\ readyState = [c \in Sock |-> 0]
    /\ sessionId = [c \in Sock |-> Null]
    /\ clientType = [c \in Sock |-> Null]
    /\ connectionData = EmptyMap
    /\ authenticated = [c \in Sock |-> FALSE]
    /\ connCounts = EmptyMap
    /\ devices = EmptyMap
    /\ ev = NoEvent
    /\ sent = <<>>
    /\ traced \in traces
    /\ wire = [log |-> [c \in Sock |-> <<>>], count |-> [c \in Sock |-> 0]]
    /\ windows = EmptyMap
    /\ nextId = 1
    /\ outputLog = EmptyMap

InitWith(variants, modes) == InitAll(variants, modes, {FALSE})

Init == InitWith({"basic", "enterprise", "device"}, BOOLEAN)

\* the frames a client sends to each server
EntFrames(sids) == AuthFrames(sids, {NoToken}) \cup PongFrames \cup PayloadFrames({"input"})
BasicFrames(sids) == AuthFrames(sids, {NoToken}) \cup PayloadFrames({"input"})
DevFrames(sids) ==
    AuthFrames(sids, {NoToken, BadToken} \cup {TokenFor(sid, ct) : sid \in sids, ct \in Roles})
        \cup PayloadFrames({"input", "webrtc_signal"})
        \cup {[Frame("input") EXCEPT !.wellFormed = FALSE]}
\* fewer of them, for the larger runs: the frames of an agent of S1 and of both
\* roles of S2, and an auth frame whose token is one issued for another session
CrossFrames ==
    (AuthFrames(SessionIds, {NoToken}) \ AuthFrames({"S1"}, {NoToken}))
        \cup {[Frame("auth") EXCEPT !.sessionId = "S1", !.clientType = "agent"], Frame("input")}
MismatchFrames ==
    {[Frame("auth") EXCEPT !.sessionId = "S2", !.clientType = "agent",
                           !.token = TokenFor("S1", "agent")]}
TimedFrames == AuthFrames({"S1"}, {NoToken}) \cup PongFrames \cup {Frame("input")}

\* one session, no passage of time
Next ==
    \/ \E c \in Sock : EntConnect(c)
    \/ \E c \in Sock : \E m \in EntFrames({"S1"}) : EntMessage(c, m)
    \/ \E c \in Sock : EntClose(c)
    \/ RequestBudget("ip1", 1) /\ EntPostSessions("ip1", "S1")
    \/ EntDeleteSession("S1")
    \/ \E c \in Sock : DevConnect(c)
    \/ \E c \in Sock : \E m \in DevFrames({"S1"}) : DevMessage(c, m)
    \/ \E c \in Sock : DevClose(c)
    \/ DevPostSessions("S1")
    \/ \E c \in Sock : BasicConnect(c)
    \/ \E c \in Sock : \E m \in BasicFrames({"S1"}) : BasicMessage(c, m)
    \/ \E c \in Sock : BasicClose(c)
    \/ BasicPostSessions("S1")

Spec == Init /\ [][Next]_vars

\* two sessions in test mode, with the clock
NextCross ==
    \/ Tick
    \/ \E c \in Sock : EntConnect(c)
    \/ \E c \in Sock : \E m \in CrossFrames : EntMessage(c, m)
    \/ cleanupExpiredSessions
    \/ \E c \in Sock : DevConnect(c)
    \/ \E c \in Sock : \E m \in CrossFrames \cup MismatchFrames : DevMessage(c, m)

SpecCross == InitWith({"enterprise", "device"}, {TRUE}) /\ [][NextCross]_vars

\* one session, with the clock and the session-expiry sweep
NextTimed ==
    \/ Tick
    \/ \E c \in TimedSock : EntConnect(c)
    \/ \E c \in TimedSock : \E m \in TimedFrames : EntMessage(c, m)
    \/ \E c \in TimedSock : EntClose(c)
    \/ RequestBudget("ip1", 1) /\ EntPostSessions("ip1", "S1")
    \/ EntDeleteSession("S1")
    \/ cleanupExpiredSessions
    \/ checkHeartbeats
    \/ \E c \in TimedSock : DevConnect(c)
    \/ \E c \in TimedSock : \E m \in TimedFrames : DevMessage(c, m)
    \/ \E c \in TimedSock : DevClose(c)
    \/ DevPostSessions("S1")

SpecTimed == InitWith({"enterprise", "device"}, BOOLEAN) /\ [][NextTimed]_vars

\* the enterprise server with its heartbeat sweep
NextSweep ==
    \/ Tick
    \/ \E c \in Sock : EntConnect(c)
    \/ \E c \in Sock : \E m \in TimedFrames : EntMessage(c, m)
    \/ \E c \in Sock : EntClose(c)
    \/ checkHeartbeats

SpecSweep == InitWith({"enterprise"}, {TRUE}) /\ [][NextSweep]_vars

\* the rate limiter of the enterprise server alone
NextRate ==
    \/ Tick
    \/ \E ip \in IPs : RequestBudget(ip, MaxRequests) /\ EntHealth(ip)
    \/ \E ip \in IPs : RequestBudget(ip, MaxRequests) /\ EntPostSessions(ip, "S1")

SpecRate == InitWith({"enterprise"}, {FALSE}) /\ [][NextRate]_vars

\* The timed behaviours under the scheduling of the timers: the session-expiry
\* sweep of the enterprise server is a setInterval callback and runs again and
\* again; the device-registry server has no such timer for its sessions.
SpecLive ==
    /\ InitWith({"enterprise", "device"}, BOOLEAN)
    /\ [][NextTimed]_vars
    /\ WF_vars(cleanupExpiredSessions)

\* The device registry of the device-registry server: an agent that registers
\* two devices and sends their heartbeats, a mobile that lists and connects
\* them, and a clock that runs past the clean-up of a silent device.
DeviceIds == {"D1", "D2"}

\* the frames of the agent, sent on the first connection
AgentDeviceFrames ==
    {[Frame("auth") EXCEPT !.sessionId = "S1", !.clientType = "agent",
                           !.info = "deviceInfo", !.deviceId = d] : d \in DeviceIds}
        \cup {[Frame("heartbeat") EXCEPT !.deviceId = d] : d \in DeviceIds}

\* the frames of the mobile, sent on the second connection
MobileDeviceFrames ==
    {[Frame("auth") EXCEPT !.sessionId = "S2", !.clientType = "mobile"],
     Frame("get_devices"), [Frame("connect_device") EXCEPT !.deviceId = "D1"]}

NextDevices ==
    \/ Advance(MaxDeviceTime)
    \/ \E c \in 1..2 : DevConnect(c)
    \/ \E m \in AgentDeviceFrames : DevMessage(1, m)
    \/ \E m \in MobileDeviceFrames : DevMessage(2, m)
    \/ DevClose(1)
    \/ cleanupOfflineDevices

SpecDevices == InitWith({"device"}, {TRUE}) /\ [][NextDevices]_vars

\* The same two connections without the clock, each with one more auth frame,
\* which names the session of the agent and the role of the mobile and carries
\* a token that does not verify.
RefusedFrames ==
    {[Frame("auth") EXCEPT !.sessionId = "S1", !.clientType = "mobile", !.token = BadToken]}

NextRebind ==
    \/ \E c \in 1..2 : DevConnect(c)
    \/ \E m \in AgentDeviceFrames \cup RefusedFrames : DevMessage(1, m)
    \/ \E m \in MobileDeviceFrames \cup RefusedFrames : DevMessage(2, m)
    \/ DevClose(1)

SpecRebind == InitWith({"device"}, {TRUE}) /\ [][NextRebind]_vars

\* Heartbeat replies on both servers: an agent on the first connection and a
\* mobile on the second, of one session, that authenticate once, answer pings
\* and close, while the clock advances.
PairFrames(c) ==
    {[Frame("auth") EXCEPT !.sessionId = "S1",
                           !.clientType = IF c = 1 THEN "agent" ELSE "mobile"]}
        \cup PongFrames

NextPong ==
    \/ Tick
    \/ \E c \in 1..2 : EntConnect(c)
    \/ \E c \in 1..2 : DevConnect(c)
    \/ \E c \in 1..2 : \E m \in PairFrames(c) : EntMessage(c, m)
    \/ \E c \in 1..2 : \E m \in PairFrames(c) : DevMessage(c, m)
    \/ \E c \in 1..2 : EntClose(c)
    \/ \E c \in 1..2 : DevClose(c)

SpecPong == InitWith({"enterprise", "device"}, {TRUE}) /\ [][NextPong]_vars

\* The order of delivery on both servers: an agent on the first connection and
\* a mobile on the second, of one session, that send numbered input and
\* signalling frames, while the other authenticates or closes, the clock
\* advances and the sweeps of the enterprise server run.
OrderFrames(c) ==
    {[Frame("auth") EXCEPT !.sessionId = "S1",
                           !.clientType = IF c = 1 THEN "agent" ELSE "mobile"]}
        \cup {[Frame(t) EXCEPT !.num = wire.count[c] + 1] :
                  t \in IF wire.count[c] < MaxQueued
                        THEN {"input", "webrtc_signal"} ELSE {}}

NextOrder ==
    \/ Tick
    \/ \E c \in 1..2 : EntConnect(c)
    \/ \E c \in 1..2 : DevConnect(c)
    \/ \E c \in 1..2 : \E m \in OrderFrames(c) : EntMessage(c, m)
    \/ \E c \in 1..2 : \E m \in OrderFrames(c) : DevMessage(c, m)
    \/ \E c \in 1..2 : EntClose(c)
    \/ \E c \in 1..2 : DevClose(c)
    \/ cleanupExpiredSessions
    \/ checkHeartbeats

SpecOrder == InitAll({"enterprise", "device"}, {TRUE}, {TRUE}) /\ [][NextOrder]_vars

\* The connection quota of the device-registry server under a cap one below
\* the number of sockets, so that a connection is refused while the others are
\* open and accepted once one of them has closed.
QuotaCap == NumSockets - 1

NextConn ==
    \/ \E c \in Sock : DevConnectUnder(c, QuotaCap)
    \/ \E c \in Sock : \E m \in PairFrames(c) \cup {Frame("input")} : DevMessage(c, m)
    \/ \E c \in Sock : DevClose(c)
    \/ DevPostSessions("S1")

SpecConn == InitWith({"device"}, BOOLEAN) /\ [][NextConn]_vars

\* Auth frames with any clientType a client may write, on the three servers in
\* test mode: 'agent', 'mobile', and a value that is neither.
AnyTypeFrames ==
    {[Frame("auth") EXCEPT !.sessionId = "S1", !.clientType = ct] : ct \in ClientTypes}
        \cup {Frame("input")}

NextAnyType ==
    \/ \E c \in Sock : EntConnect(c)
    \/ \E c \in Sock : \E m \in AnyTypeFrames : EntMessage(c, m)
    \/ \E c \in Sock : EntClose(c)
    \/ \E c \in Sock : DevConnect(c)
    \/ \E c \in Sock : \E m \in AnyTypeFrames : DevMessage(c, m)
    \/ \E c \in Sock : DevClose(c)
    \/ \E c \in Sock : BasicConnect(c)
    \/ \E c \in Sock : \E m \in AnyTypeFrames : BasicMessage(c, m)
    \/ \E c \in Sock : BasicClose(c)

SpecAnyType == InitWith({"basic", "enterprise", "device"}, {TRUE}) /\ [][NextAnyType]_vars

\* The window manager alone, the relay idle: windows are created up to the
\* cap and beyond, write output, exit, and are removed by request, by the exit
\* timer and all at once.
WindowIds == 1..MaxWindowIds

NextWindows ==
    \/ createWindow
    \/ \E id \in WindowIds : removeWindow(id)
    \/ \E id \in WindowIds : ptyOutput(id)
    \/ \E id \in WindowIds : ptyExit(id)
    \/ \E id \in WindowIds : exitTimeout(id)
    \/ destroyAll
    \/ \E id \in WindowIds, limit \in 0..(outputBufferSize + 1) : getWindowBuffer(id, limit)

SpecWindows == InitWith({"basic"}, {FALSE}) /\ [][NextWindows]_vars

\* The traffic counters of the enterprise server: two connections of two
\* sessions that send screen frames of both sizes and input frames, close, and
\* have a session deleted and created again.
TrafficFrames ==
    AuthFrames({"S1", "S2"}, {NoToken}) \cup PayloadFrames({"frame"}) \cup {Frame("input")}

\* the counters the model lets a session reach
TrafficBudget == \A sid \in DOMAIN sessions : sessions[sid].totalFrames < MaxFrames

NextTraffic ==
    \/ \E c \in 1..2 : EntConnect(c)
    \/ \E c \in 1..2, m \in TrafficFrames : TrafficBudget /\ EntMessage(c, m)
    \/ \E c \in 1..2 : EntClose(c)
    \/ EntDeleteSession("S1")

SpecTraffic == InitWith({"enterprise"}, {TRUE}) /\ [][NextTraffic]_vars

\* One connection and one address against the session quota of the enterprise
\* server: one session id more than the quota allows, created by POST or by
\* the auth frames of a test-mode server.
QuotaIds == {"S1", "S2", "S3"}

QuotaFrames == {m \in AuthFrames(QuotaIds, {NoToken}) : m.clientType = "agent"}

NextQuota ==
    \/ Tick
    \/ EntConnect(1)
    \/ \E m \in QuotaFrames : EntMessage(1, m)
    \/ \E id \in QuotaIds :
           RequestBudget("ip1", MaxRequests) /\ EntPostSessions("ip1", id)

SpecQuota == InitWith({"enterprise"}, BOOLEAN) /\ [][NextQuota]_vars

----------------------------------------------------------------------------
(* Properties.  `ev` is the event the last step handled and `sent` the       *)
(* frames that step sent, in order.                                          *)

Registry(r) == IF r = "agent" THEN agents ELSE mobiles
Opposite(r) == IF r = "agent" THEN "mobile" ELSE "agent"

\* connection c occupies the slot (sid, r) of the registry
Holds(c, sid, r) == Has(Registry(r), sid) /\ Registry(r)[sid].socket = c

SlotsOf(c) == {slot \in SessionIds \X Roles : Holds(c, slot[1], slot[2])}
SessionsOf(c) == {slot[1] : slot \in SlotsOf(c)}

\* the frame types the servers give a meaning of their own
ControlTypes ==
    {"auth", "pong", "heartbeat", "get_devices", "connect_device", "webrtc_signal"}

\* the last step handled a frame that is payload to the relay
PayloadHandled == ev.kind = "message" /\ ev.msg.type \notin ControlTypes

\* the sockets the frame of the last step was forwarded to
ForwardedTo ==
    {sent[i].to : i \in {j \in 1..Len(sent) : sent[j].msg.type = ev.msg.type}}

\* connection c has completed no successful auth.  The device-registry server
\* keeps the flag; the enterprise server creates the ConnectionData of a socket
\* on its first successful auth; the basic server keeps no trace of it, and
\* there the connections that have sent no auth frame at all are taken.
NeverAuthenticated(c) ==
    CASE variant = "device" -> ~authenticated[c]
      [] variant = "enterprise" -> ~Has(connectionData, c)
      [] OTHER -> sessionId[c] = Null

\* C1: at most one connection forwards as (S, r): in the enterprise and the
\* device-registry server a connection that has authenticated and holds no
\* registry slot, as one displaced by a later connection does, has none of its
\* frames delivered to anybody.
C1_DisplacedForwardsNothing ==
    (/\ PayloadHandled
     /\ variant # "basic"
     /\ ~NeverAuthenticated(ev.sock)
     /\ SlotsOf(ev.sock) = {}) => ForwardedTo = {}

\* C2: the close of a connection leaves every registry slot that another
\* connection holds as it is: a slot is removed only if it still refers to the
\* closing connection.
C2_CloseKeepsTheReplacement ==
    [][ev'.kind = "close" =>
          \A sid \in SessionIds, r \in Roles :
              (Has(Registry(r), sid) /\ Registry(r)[sid].socket # ev'.sock)
                  => (Has(Registry(r)', sid) /\ Registry(r)'[sid] = Registry(r)[sid])]_vars

\* the socket a payload frame of connection c is forwarded to by the relay
\* branch, 0 when it is forwarded to nobody
RelayTarget(c) ==
    LET target == Registry(Opposite(clientType[c]))
    IN IF /\ sessionId[c] # Null
          /\ clientType[c] # Null
          /\ variant = "device" => authenticated[c]
          /\ IsOpen(target, sessionId[c])
       THEN target[sessionId[c]].socket
       ELSE 0

\* the last step handled an auth frame and answered it with an error alone
AuthRejected ==
    /\ ev.kind = "message" /\ ev.msg.type = "auth"
    /\ Len(sent) = 1
    /\ sent[1].to = ev.sock
    /\ sent[1].msg.type = "error"

\* C3: no frame crosses sessions: when an auth frame of a connection that has
\* authenticated before is rejected and names a session the connection is not
\* registered for, the frames of the connection go where they went before, or
\* to nobody, and never to a connection of the session the frame named.
C3_RejectedAuthKeepsTheRoute ==
    [][\A c \in Sock :
          (/\ AuthRejected'
           /\ ev'.sock = c
           /\ ~NeverAuthenticated(c)
           /\ ev'.msg.sessionId \notin SessionsOf(c))
          => RelayTarget(c)' \in {0, RelayTarget(c)}]_vars

\* C4: a connection that has completed no successful auth gets an error for
\* every frame other than auth, stays open, and the frame goes to nobody else.
\* The frames taken here are the payload frames, which no server gives a
\* meaning of its own.
C4_UnauthenticatedFrameRejected ==
    (PayloadHandled /\ NeverAuthenticated(ev.sock)) =>
        /\ readyState[ev.sock] = OPEN
        /\ Len(sent) = 1
        /\ sent[1].to = ev.sock
        /\ sent[1].msg.type = "error"

\* C5: the expiresAt of a session never decreases, whatever the step.
C5_ExpiresAtNeverDecreases ==
    [][\A sid \in DOMAIN sessions \cap DOMAIN sessions' :
          sessions'[sid].expiresAt >= sessions[sid].expiresAt]_vars

\* C5's case: a successful auth, after time has passed, has slid the expiry.
C5_Witness ==
    /\ variant = "enterprise"
    /\ ev.kind = "message" /\ ev.msg.type = "auth"
    /\ now > 0
    /\ Len(sent) >= 1
    /\ sent[1] = Send(ev.sock, AuthSuccess(ev.msg.sessionId, ev.msg.clientType,
                                           now + sessionExpiry))
    /\ sessions[ev.msg.sessionId].expiresAt = now + sessionExpiry

\* C6: an auth frame naming a session whose expiresAt has passed is rejected:
\* the sender gets an error and no auth_success, no registry slot is added or
\* replaced, and the expiresAt of the session is not extended.
C6_ExpiredSessionRejectsAuth ==
    [][(/\ ev'.kind = "message" /\ ev'.msg.type = "auth"
        /\ Has(sessions, ev'.msg.sessionId)
        /\ now > sessions[ev'.msg.sessionId].expiresAt)
       => /\ Len(sent') = 1
          /\ sent'[1].to = ev'.sock
          /\ sent'[1].msg.type = "error"
          /\ agents' = agents
          /\ mobiles' = mobiles
          /\ Has(sessions', ev'.msg.sessionId) =>
                sessions'[ev'.msg.sessionId].expiresAt
                    <= sessions[ev'.msg.sessionId].expiresAt]_vars

\* C6's case: an auth frame was answered with the expiry error.
C6_Witness ==
    /\ ev.kind = "message" /\ ev.msg.type = "auth"
    /\ now > sessionExpiry
    /\ sent = <<Send(ev.sock, ErrorFrame("Session expired"))>>

\* C7: forwarding is payload-transparent: what a payload frame makes the
\* server send is the frame itself, byte for byte, or the error reply to its
\* sender.
C7_PayloadTransparent ==
    PayloadHandled =>
        \A i \in 1..Len(sent) :
            \/ sent[i] = Send(ev.sock, ErrorFrame("Not authenticated"))
            \/ sent[i].msg = ev.msg

\* C7's case: a frame that is not in the form JSON.stringify gives has reached
\* the counterpart.
C7_Witness ==
    /\ PayloadHandled
    /\ ev.msg.raw = "spaced"
    /\ Len(sent) = 1
    /\ sent[1].to # ev.sock
    /\ sent[1].msg.raw = "spaced"

\* C8: after the heartbeat sweep no authenticated connection whose last pong is
\* older than the heartbeat timeout is still open or still holds a slot.
C8_SweepClosesEveryStaleConnection ==
    ev.kind = "heartbeats" =>
        \A c \in Sock :
            (Has(connectionData, c) /\ Stale(connectionData[c])) =>
                readyState[c] # OPEN /\ SlotsOf(c) = {}

\* C9: when the close of a connection that holds the one slot (S, r) is
\* handled, the open connection in the opposite slot of S gets exactly one
\* peer_disconnected with peerType r and nobody else gets one; with no open
\* connection in the opposite slot nobody gets a peer_disconnected.
C9_CloseNotifiesTheCounterpart ==
    [][ev'.kind = "close" =>
          \A sid \in SessionIds, r \in Roles :
              SlotsOf(ev'.sock) = {<<sid, r>>} =>
                  LET other == Registry(Opposite(r))
                      notes == SelectSeq(sent', LAMBDA x : x.msg.type = "peer_disconnected")
                  IN IF IsOpen(other, sid)
                     THEN notes = <<Send(other[sid].socket, PeerDisconnected(r))>>
                     ELSE notes = <<>>]_vars

\* C10: of the requests of one IP inside a window the first rateLimitMax are
\* allowed and the next one is rejected; the first request after
\* rateLimitWindow has elapsed since the window started is allowed and opens a
\* window of its own with a count of one.
C10_RateLimit ==
    [][ev'.kind \in {"post", "health"} =>
          LET ip == ev'.ip
              inWindow == IF Has(rateLimits, ip) THEN now <= rateLimits[ip].resetTime
                          ELSE FALSE
              made == IF inWindow THEN rateLimits[ip].count ELSE 0
          IN /\ (ev'.status # "Rate limit exceeded") <=> (made < rateLimitMax)
             /\ rateLimits'[ip].count = made + 1
             /\ rateLimits'[ip].resetTime =
                    IF inWindow THEN rateLimits[ip].resetTime ELSE now + rateLimitWindow]_vars

\* C10's case: the request after the rateLimitMax-th of a window was rejected.
C10_Witness ==
    /\ ev.kind \in {"post", "health"}
    /\ ev.status = "Rate limit exceeded"
    /\ rateLimits[ev.ip].count = rateLimitMax + 1

\* the frames of one type among those the last step sent
SentOfType(type) == SelectSeq(sent, LAMBDA x : x.msg.type = type)

\* C11: a connection that authenticates successfully for (S, r) receives
\* auth_success; the open connection in the opposite slot of S receives exactly
\* one peer_connected with peerType r, and with no open connection there, as
\* after an auth that is rejected, nobody receives a peer_connected.
C11_AuthNotifiesThePeer ==
    [][\A c \in Sock, sid \in SessionIds, r \in Roles :
          (/\ ev'.kind = "message" /\ ev'.msg.type = "auth"
           /\ ev'.sock = c /\ ev'.msg.sessionId = sid /\ ev'.msg.clientType = r)
          => LET other == Registry(Opposite(r))
                 accepted == SentOfType("auth_success")' # <<>>
             IN /\ accepted => /\ Len(SentOfType("auth_success")') = 1
                               /\ sent'[1].to = c
                               /\ sent'[1].msg.type = "auth_success"
                               /\ sent'[1].msg.sessionId = sid
                               /\ sent'[1].msg.clientType = r
                               /\ Holds(c, sid, r)'
                /\ Holds(c, sid, r)' /\ ~Holds(c, sid, r) => accepted
                /\ LET told == SentOfType("peer_connected")'
                   IN IF accepted /\ IsOpen(other, sid)
                      THEN /\ Len(told) = 1
                           /\ told[1].to = other[sid].socket
                           /\ told[1].msg.info = r
                      ELSE told = <<>>]_vars

\* C11's case: an auth was accepted while the opposite slot held another open
\* connection, which was told.
C11_Witness ==
    /\ ev.kind = "message" /\ ev.msg.type = "auth"
    /\ Len(sent) = 2
    /\ sent[1].msg.type = "auth_success"
    /\ sent[2].msg.type = "peer_connected"
    /\ sent[2].to # ev.sock
    /\ sent[2].msg.info = ev.msg.clientType

\* every slot that connection c holds has no open connection in the opposite
\* slot of its session
Unpaired(c) ==
    /\ SlotsOf(c) # {}
    /\ \A slot \in SlotsOf(c) : ~IsOpen(Registry(Opposite(slot[2])), slot[1])

\* C12: a payload frame from an authenticated connection whose session has no
\* open connection in the opposite role is dropped: it is delivered to nobody,
\* the sender gets no error, and the sessions with their traffic counters and
\* the registry are unchanged.
C12_UnpairedPayloadDropped ==
    [][\A c \in Sock :
          (/\ ~NeverAuthenticated(c)
           /\ Unpaired(c)
           /\ PayloadHandled'
           /\ ev'.sock = c)
          => /\ sent' = <<>>
             /\ sessions' = sessions
             /\ agents' = agents
             /\ mobiles' = mobiles]_vars

\* auth frame m carries no token, or the token issued for the session and role
\* it claims
TokenPasses(m) ==
    ~m.token.present \/ (m.token.sessionId = m.sessionId /\ m.token.clientType = m.clientType)

C14_BadTokenRejected ==
    [][\A c \in Sock :
          (/\ variant = "device"
           /\ ~authenticated[c]
           /\ ev'.kind = "message" /\ ev'.msg.type = "auth" /\ ev'.sock = c
           /\ ev'.msg.token.present
           /\ ~TokenPasses(ev'.msg))
          => /\ Len(sent') = 1
             /\ sent'[1].to = c
             /\ sent'[1].msg.type = "error"
             /\ readyState'[c] = OPEN
             /\ ~authenticated'[c]
             /\ sessions' = sessions
             /\ agents' = agents
             /\ mobiles' = mobiles
             /\ devices' = devices]_vars

\* C14's case: an unauthenticated connection has just been refused for a token
\* of the right session and the wrong role.
C14_Witness ==
    /\ variant = "device"
    /\ AuthRejected
    /\ ~authenticated[ev.sock]
    /\ sent[1].msg.info = "Token mismatch"
    /\ ev.msg.token.sessionId = ev.msg.sessionId
    /\ ev.msg.token.clientType # ev.msg.clientType

\* C15: the session and role of an authenticated connection never change: an
\* auth frame of a connection registered as (S, r) that names another session
\* or role is not accepted, registers the connection under no new key, and
\* leaves the route of its frames as it was.
C15_BindingNeverChanges ==
    [][\A c \in Sock, sid \in SessionIds, r \in Roles :
          (/\ ~NeverAuthenticated(c)
           /\ SlotsOf(c) = {<<sid, r>>}
           /\ sessionId[c] = sid /\ clientType[c] = r
           /\ ev'.kind = "message" /\ ev'.msg.type = "auth" /\ ev'.sock = c
           /\ <<ev'.msg.sessionId, ev'.msg.clientType>> # <<sid, r>>)
          => /\ SentOfType("auth_success")' = <<>>
             /\ SlotsOf(c)' = {<<sid, r>>}
             /\ RelayTarget(c)' = RelayTarget(c)]_vars

\* C16: when a connection takes a slot (S, r) that another open connection
\* holds, the displaced connection is sent a notification of its own, other
\* than the peer_connected due to a counterpart, and is closed.
C16_DisplacedIsNotifiedAndClosed ==
    [][\A c, d \in Sock, sid \in SessionIds, r \in Roles :
          (/\ c # d
           /\ Holds(d, sid, r)
           /\ readyState[d] = OPEN
           /\ Holds(c, sid, r)')
          => /\ readyState'[d] # OPEN
             /\ \E i \in 1..Len(sent') :
                    sent'[i].to = d /\ sent'[i].msg.type # "peer_connected"]_vars

\* C17: when a session is removed, by the expiry sweep, by DELETE or on
\* expiry found at auth, the connections that held its registry slots are
\* closed and no slot of the session remains.
C17_RemovedSessionLeavesNothing ==
    [][\A sid \in SessionIds :
          (Has(sessions, sid) /\ ~Has(sessions', sid))
          => /\ ~Has(agents', sid)
             /\ ~Has(mobiles', sid)
             /\ \A c \in Sock :
                    (\E r \in Roles : Holds(c, sid, r)) => readyState'[c] # OPEN]_vars

\* C18: once the close of a connection has been handled, no registry slot of
\* any session refers to that connection.
C18_ClosedConnectionHoldsNoSlot ==
    \A c \in Sock : (ev.kind = "close" /\ ev.sock = c) => SlotsOf(c) = {}

\* the sessions that address ip has created
SessionsCreatedBy(ip) == {sid \in DOMAIN sessions : sessions[sid].creatorIP = ip}

\* C19: no address ever has more than maxSessionsPerIP sessions with its
\* creatorIP in the store.
C19_SessionQuota ==
    \A ip \in IPs : Cardinality(SessionsCreatedBy(ip)) <= maxSessionsPerIP

\* the last step answered a get_devices frame with the list of devices
DevicesListed ==
    /\ ev.kind = "message" /\ ev.msg.type = "get_devices"
    /\ Len(sent) = 1 /\ sent[1].to = ev.sock /\ sent[1].msg.type = "devices"

\* C20: the list of online devices holds exactly the devices of the registry
\* whose last heartbeat is less than the online timeout ago: a device silent
\* for the timeout or longer is left out, though it is still in the registry,
\* and a device heard of more recently is listed.
C20_OnlineDevicesListed ==
    /\ (ev.kind = "message" /\ ev.msg.type = "get_devices"
        /\ authenticated[ev.sock] /\ clientType[ev.sock] = "mobile") => DevicesListed
    /\ DevicesListed =>
           /\ sent[1].msg.list \subseteq DOMAIN devices
           /\ \A d \in DOMAIN devices :
                  d \in sent[1].msg.list <=> now - devices[d].lastHeartbeat < DEVICE_TIMEOUT

\* C20's case: of two registered devices the list holds the one heard of one
\* tick ago and not the one silent for longer than the timeout.
C20_Witness ==
    /\ DevicesListed
    /\ \E d \in DOMAIN devices :
           d \in sent[1].msg.list /\ now - devices[d].lastHeartbeat = DEVICE_TIMEOUT - 1
    /\ \E d \in DOMAIN devices :
           d \notin sent[1].msg.list /\ now - devices[d].lastHeartbeat > DEVICE_TIMEOUT

\* the time device d has been silent for
Silence(d) == now - devices[d].lastHeartbeat

\* C21, as the spec has it: no device of the registry has been silent for more
\* than three times the online timeout.
C21_SilentDeviceIsGone ==
    \A d \in DOMAIN devices : Silence(d) <= DEVICE_TIMEOUT * 3

\* C21, amended: a run of the periodic clean-up removes exactly the devices
\* silent for more than three times the online timeout; between two runs such
\* a device stays in the registry.
C21_CleanupRemovesTheSilent ==
    [][ev'.kind = "devices"
       => /\ DOMAIN devices' = {d \in DOMAIN devices : Silence(d) <= DEVICE_TIMEOUT * 3}
          /\ \A d \in DOMAIN devices' : devices'[d] = devices[d]]_vars

\* C21's case: a clean-up has just run and kept one device while another,
\* registered before, is gone.
C21_Witness ==
    /\ ev.kind = "devices"
    /\ DOMAIN devices # {}
    /\ DOMAIN devices # DeviceIds

\* the connections that hold a registry slot of session sid
HoldersOf(sid) == {c \in Sock : \E r \in Roles : Holds(c, sid, r)}

\* the connections the last step sent a frame of the given type
ToldOf(type) == {sent[i].to : i \in {j \in 1..Len(sent) : sent[j].msg.type = type}}

\* C22: one run of the session-expiry sweep sends session_expired to the open
\* connections that hold the slots of the sessions with now > expiresAt, closes
\* them and removes those sessions with both their slots; an unexpired
\* session, its slots and the connections that hold them are left as they were.
C22_SweepTakesTheExpiredOnly ==
    [][ev'.kind = "cleanup"
       => \A sid \in DOMAIN sessions :
              IF now > sessions[sid].expiresAt
              THEN /\ ~Has(sessions', sid)
                   /\ ~Has(agents', sid)
                   /\ ~Has(mobiles', sid)
                   /\ \A c \in HoldersOf(sid) :
                          readyState[c] = OPEN
                          => c \in ToldOf("session_expired")' /\ readyState'[c] # OPEN
              ELSE /\ Has(sessions', sid)
                   /\ sessions'[sid] = sessions[sid]
                   /\ Has(agents', sid) = Has(agents, sid)
                   /\ Has(mobiles', sid) = Has(mobiles, sid)
                   /\ HoldersOf(sid)' = HoldersOf(sid)
                   /\ \A c \in HoldersOf(sid) :
                          readyState'[c] = readyState[c] /\ c \notin ToldOf("session_expired")']_vars

\* C23: every session whose expiresAt has passed is eventually deleted from
\* the session store together with its registry entries, whether or not a
\* client authenticates against it again.
C23_ExpiredSessionIsDeleted ==
    \A sid \in SessionIds :
        Expired(sid) ~> (~Has(sessions, sid) /\ ~Has(agents, sid) /\ ~Has(mobiles, sid))

\* the lifetime the running server gives its sessions
TTL == IF variant = "device" THEN sessionTimeout ELSE sessionExpiry

\* C24: every accepted auth at time t, of either role, the first for its
\* session or a later one, sets the expiresAt of the session to t + TTL.
C24_AuthSlidesTheExpiry ==
    [][\A sid \in SessionIds :
          (/\ ev'.kind = "message" /\ ev'.msg.type = "auth" /\ ev'.msg.sessionId = sid
           /\ SentOfType("auth_success")' # <<>>)
          => Has(sessions', sid) /\ sessions'[sid].expiresAt = now + TTL]_vars

\* C25: a frame other than auth that fails input validation and comes from a
\* connection authenticated as mobile is dropped silently: it goes to nobody,
\* nothing is sent back, the connection stays open and authenticated, and the
\* sessions, the registry and the devices are unchanged.
C25_InvalidMobileInputDropped ==
    [][\A c \in Sock :
          (/\ variant = "device"
           /\ authenticated[c]
           /\ SlotsOf(c) # {}
           /\ \A slot \in SlotsOf(c) : slot[2] = "mobile"
           /\ ev'.kind = "message" /\ ev'.sock = c
           /\ ev'.msg.type # "auth"
           /\ ~ev'.msg.wellFormed)
          => /\ sent' = <<>>
             /\ readyState'[c] = OPEN
             /\ authenticated'[c]
             /\ sessions' = sessions
             /\ agents' = agents
             /\ mobiles' = mobiles
             /\ devices' = devices]_vars

\* C26: connect_device from a connection authenticated as the mobile of
\* session S: if the named device is in the registry and its connection is
\* open, the agents slot of S becomes that connection and the mobile receives
\* device_connected; otherwise the mobile receives the error 'Device not
\* available' and the registry is unchanged.  Whether S had an agent before
\* plays no part.
C26_ConnectDeviceRebinds ==
    [][\A c \in Sock, sid \in SessionIds, d \in DeviceIds :
          (/\ variant = "device"
           /\ authenticated[c]
           /\ SlotsOf(c) = {<<sid, "mobile">>}
           /\ ev'.kind = "message" /\ ev'.sock = c
           /\ ev'.msg.type = "connect_device"
           /\ ev'.msg.deviceId = d
           /\ ev'.msg.wellFormed)
          => (IF Has(devices, d) /\ readyState[devices[d].socket] = OPEN
                THEN /\ Holds(devices[d].socket, sid, "agent")'
                     /\ mobiles' = mobiles
                     /\ \A other \in DOMAIN agents \ {sid} :
                            Has(agents', other) /\ agents'[other] = agents[other]
                     /\ c \in ToldOf("device_connected")'
                ELSE /\ agents' = agents
                     /\ mobiles' = mobiles
                     /\ Len(sent') = 1
                     /\ sent'[1].to = c
                     /\ sent'[1].msg.type = "error"
                     /\ sent'[1].msg.info = "Device not available")]_vars

\* C27: a heartbeat frame of a connection authenticated as agent, for a device
\* id that is not in the device registry, is a no-op: no device is created or
\* changed, nothing is sent to the sender or to anybody else, and the sessions
\* and the registry are unchanged.
C27_UnknownHeartbeatIsNoOp ==
    [][\A c \in Sock, d \in DeviceIds :
          (/\ variant = "device"
           /\ authenticated[c]
           /\ SlotsOf(c) # {}
           /\ \A slot \in SlotsOf(c) : slot[2] = "agent"
           /\ ev'.kind = "message" /\ ev'.sock = c
           /\ ev'.msg.type = "heartbeat"
           /\ ev'.msg.deviceId = d
           /\ ~Has(devices, d))
          => /\ devices' = devices
             /\ sent' = <<>>
             /\ sessions' = sessions
             /\ agents' = agents
             /\ mobiles' = mobiles]_vars

\* the replies of a request that admission control has rejected
Rejections == {"Rate limit exceeded", "Max sessions per IP exceeded"}

\* C28: a request rejected by admission control, for the rate limit or for the
\* session quota of its address, leaves the sessions and the registry as they
\* were; of the rate counters only the one of that address changes, and it
\* has counted the request.
C28_RejectedRequestChangesNothing ==
    [][\A ip \in IPs :
          (ev'.kind \in {"post", "health"} /\ ev'.ip = ip /\ ev'.status \in Rejections)
          => /\ sessions' = sessions
             /\ agents' = agents
             /\ mobiles' = mobiles
             /\ connectionData' = connectionData
             /\ readyState' = readyState
             /\ Has(rateLimits', ip)
             /\ rateLimits' # rateLimits
             /\ \A other \in DOMAIN rateLimits \ {ip} :
                    Has(rateLimits', other) /\ rateLimits'[other] = rateLimits[other]
             /\ DOMAIN rateLimits' = DOMAIN rateLimits \cup {ip}]_vars

\* C28's case: a POST has just been refused for the session quota while a
\* connection is registered.
C28_Witness ==
    /\ ev.kind = "post"
    /\ ev.status = "Max sessions per IP exceeded"
    /\ DOMAIN agents # {}

\* the sessions whose record the last step left different, or created or
\* removed, written for a step from the unprimed to the primed state
Counted(sid) ==
    /\ Has(sessions, sid) /\ Has(sessions', sid)
    /\ sessions'[sid].totalFrames = sessions[sid].totalFrames + 1
    /\ sessions'[sid].totalBytes = sessions[sid].totalBytes + messageSize(ev'.msg)

Uncounted(sid) ==
    (Has(sessions, sid) /\ Has(sessions', sid))
    => /\ sessions'[sid].totalFrames = sessions[sid].totalFrames
       /\ sessions'[sid].totalBytes = sessions[sid].totalBytes

\* the step handled a frame other than auth and pong and forwarded it
Forwarded == PayloadHandled' /\ ForwardedTo' # {}

\* C29, as the spec has it: every payload frame that is forwarded is counted
\* in the counters of a session.
C29_EveryForwardedFrameCounts ==
    [][Forwarded => \E sid \in SessionIds : Counted(sid)]_vars

\* C29, amended: a forwarded frame of type 'frame' adds one to totalFrames and
\* its size to totalBytes of one session, in a slot of which its receiver is
\* registered; a forwarded frame of another type and a dropped frame change no
\* counter; and the counters of a session record never decrease.
C29_ScreenFramesCount ==
    [][/\ (Forwarded /\ ev'.msg.type = "frame")
          => \E sid \in SessionIds :
                 /\ Counted(sid)
                 /\ \E r \in Roles, c \in Sock : c \in ForwardedTo' /\ Holds(c, sid, r)
                 /\ \A other \in SessionIds \ {sid} : Uncounted(other)
       /\ (PayloadHandled' /\ ~(Forwarded /\ ev'.msg.type = "frame"))
          => \A sid \in SessionIds : Uncounted(sid)
       /\ \A sid \in SessionIds :
              (Has(sessions, sid) /\ Has(sessions', sid))
              => /\ sessions'[sid].totalFrames >= sessions[sid].totalFrames
                 /\ sessions'[sid].totalBytes >= sessions[sid].totalBytes]_vars

\* C29's case: a screen frame of the larger size has just been forwarded and
\* counted on top of an earlier one.
C29_Witness ==
    /\ PayloadHandled /\ ev.msg.type = "frame" /\ messageSize(ev.msg) = 2
    /\ ForwardedTo # {}
    /\ \E sid \in DOMAIN sessions :
           sessions[sid].totalFrames = 2 /\ sessions[sid].totalBytes >= 3

\* the slots of the registry and the connections they hold
Slots == [r \in Roles |-> [sid \in DOMAIN Registry(r) |-> Registry(r)[sid].socket]]

\* connection c has authenticated: the enterprise server has made its
\* connectionData, the device server has set its flag
IsAuthenticated(c) ==
    IF variant = "enterprise" THEN Has(connectionData, c) ELSE authenticated[c]

\* C30: a pong from an authenticated connection sets that connection's
\* lastHeartbeat and latency and nothing else: no frame is sent to anyone, and
\* the slots of the registry, the session records, the devices and the
\* connection's session, role and authentication stay as they were.
C30_PongStaysLocal ==
    [][\A c \in Sock :
          (ev'.kind = "message" /\ ev'.sock = c /\ ev'.msg.type = "pong"
           /\ IsAuthenticated(c))
          => /\ sent' = <<>>
             /\ Slots' = Slots
             /\ sessions' = sessions /\ devices' = devices
             /\ sessionId' = sessionId /\ clientType' = clientType
             /\ authenticated' = authenticated
             /\ Has(connectionData, c)
                => connectionData' = Put(connectionData, c,
                       [connectionData[c] EXCEPT !.lastHeartbeat = now,
                                                 !.latency = now - ev'.msg.num])]_vars

\* the open connections in the opposite slot of a session in which
\* connection c holds a slot
Counterparts(c) ==
    {t \in Sock : \E slot \in SlotsOf(c) :
        /\ Holds(t, slot[1], Opposite(slot[2]))
        /\ readyState[t] = OPEN}

\* the step left the registry, the sessions, the devices and every
\* connection's session, role and authentication as they were
NoStateChange ==
    /\ Slots' = Slots
    /\ sessions' = sessions /\ devices' = devices
    /\ sessionId' = sessionId /\ clientType' = clientType
    /\ authenticated' = authenticated

\* C31: a well-formed webrtc_signal frame from an authenticated connection is
\* delivered, byte for byte, to the open counterpart of its session and to
\* nobody else; with no open counterpart it is dropped and nothing is sent;
\* in both cases no state changes.
C31_SignalDeliveredVerbatim ==
    [][\A c \in Sock :
          (/\ ev'.kind = "message" /\ ev'.sock = c
           /\ ev'.msg.type = "webrtc_signal" /\ ev'.msg.wellFormed
           /\ IsAuthenticated(c))
          => /\ NoStateChange
             /\ IF Counterparts(c) = {}
                THEN sent' = <<>>
                ELSE \E t \in Counterparts(c) : sent' = <<Send(t, ev'.msg)>>]_vars

OpenFrom(ip) == {c \in Sock : clientIP(c) = ip /\ readyState[c] \in {OPEN, 2}}

\* the count the quota keeps for an address, 0 when it keeps none
QuotaCount(ip) == IF ip \in DOMAIN connCounts THEN connCounts[ip] ELSE 0

\* C33: the connection quota is balanced: the count of an address goes up by
\* one when a connection is accepted, down by one when an accepted connection
\* closes, and stays as it is in a refusal and in every other step; it always
\* equals the number of accepted connections of the address still open.
C33_QuotaBalanced ==
    [][variant = "device" =>
          \A ip \in IPs :
              /\ QuotaCount(ip)' =
                    QuotaCount(ip)
                    + (IF ev'.kind = "connect" /\ ev'.status = "accepted"
                          /\ clientIP(ev'.sock) = ip THEN 1 ELSE 0)
                    - (IF ev'.kind = "close" /\ clientIP(ev'.sock) = ip THEN 1 ELSE 0)
              /\ QuotaCount(ip)' = Cardinality(OpenFrom(ip)')]_vars

\* C33's case: a connection was refused by the quota check while another of
\* its address is open and holds the only slot.
C33_Witness ==
    /\ ev.kind = "connect" /\ ev.status = "refused"
    /\ QuotaCount(clientIP(ev.sock)) = 1
    /\ \E c \in Sock \ {ev.sock} : clientIP(c) = clientIP(ev.sock) /\ readyState[c] = OPEN

\* C34: the close of a connection that has never authenticated leaves both
\* maps of the registry and the session records as they were and sends
\* nothing to anyone.
C34_StrangerClosesQuietly ==
    [][\A c \in Sock :
          (ev'.kind = "close" /\ ev'.sock = c /\ NeverAuthenticated(c))
          => /\ agents' = agents /\ mobiles' = mobiles
             /\ sessions' = sessions
             /\ sent' = <<>>]_vars

\* C35: a connection that is sent auth_success is, in the state the handler
\* leaves, the entry of the registry for the session and the clientType the
\* acknowledgement names; a clientType other than 'agent' is looked up in the
\* map of the mobiles, as the relay and the close handler look it up.
C35_AcknowledgedIsRegistered ==
    \A i \in 1..Len(sent) :
        sent[i].msg.type = "auth_success"
        => Holds(sent[i].to, sent[i].msg.sessionId, sent[i].msg.clientType)

\* C36: routing is symmetric: if the frames of a connection that acts as a
\* mobile are forwarded to connection a, the frames of a are forwarded to
\* that connection.
C36_RoutingSymmetric ==
    \A m, a \in Sock :
        (clientType[m] = "mobile" /\ RelayTarget(m) = a) => RelayTarget(a) = m

\* C37: the table never holds more than maxWindows windows; a createWindow on
\* a full table throws and leaves the table and nextId as they were; and an
\* id is given once: every window that enters the table has an id no window
\* had before, nextId never goes back, and every id in use is below it.
C37_WindowCapAndFreshIds ==
    [][/\ Cardinality(DOMAIN windows') <= maxWindows
       /\ (ev'.kind = "window:create" /\ Cardinality(DOMAIN windows) >= maxWindows)
          => (windows' = windows /\ nextId' = nextId /\ ev'.status # "created")
       /\ \A id \in DOMAIN windows' \ DOMAIN windows : nextId <= id
       /\ \A id \in DOMAIN windows' : id < nextId'
       /\ nextId' >= nextId]_vars

\* C37's case: createWindow has just thrown on a full table, after earlier
\* windows were removed and their ids retired.
C37_Witness ==
    /\ ev.kind = "window:create" /\ ev.status = "Maximum windows reached"
    /\ Cardinality(DOMAIN windows) = maxWindows
    /\ nextId > maxWindows + 1

\* C38: the buffer of a window holds at most outputBufferSize entries, and they
\* are the latest outputs of its terminal, oldest first: after n outputs the
\* buffer holds the outputs n - k + 1 .. n in this order, k the smaller of n
\* and outputBufferSize.
C38_BufferKeepsTheLatest ==
    \A id \in DOMAIN windows :
        LET buffer == windows[id].outputBuffer
            n == outputLog[id]
            k == IF n < outputBufferSize THEN n ELSE outputBufferSize
        IN /\ Len(buffer) <= outputBufferSize
           /\ Len(buffer) = k
           /\ \A i \in 1..Len(buffer) : buffer[i].data = n - k + i

\* C38's case: a terminal has written more than the buffer holds, twice over
\* the cap, and its buffer is full.
C38_Witness ==
    \E id \in DOMAIN windows :
        /\ outputLog[id] >= outputBufferSize + 2
        /\ Len(windows[id].outputBuffer) = outputBufferSize

====
